---- MODULE Spec2Model ----
(***************************************************************************)
(* Pool/session orchestration engine of the dynamic-labyrinth orchestrator *)
(* (src/orchestrator/pool_manager.py, nginx_writer.py, main.py).           *)
(*                                                                         *)
(* The store is modelled as it is seen through the database handle `db`    *)
(* that every engine operation receives.  With the default SQLite URL the  *)
(* engine is created with StaticPool (database.py:111-117), i.e. one       *)
(* connection shared by every handle, and handles autoflush before each    *)
(* query: a change an operation made but did not commit is read by every   *)
(* later operation and is made durable by the next commit, unless the      *)
(* caller rolls the handle back first (database.py:140-142).               *)
(* `containers`/`sessions`/`entries` are that view; `committed` is the     *)
(* durable part.                                                           *)
(*                                                                         *)
(* Identifiers are integers: container id = 10 * level + index, session    *)
(* ids are 1..NumSessions, None is 0.  Time is an integer clock.           *)
(* The created_at/updated_at/last_health_check stamps are not modelled.    *)
(***************************************************************************)
EXTENDS Integers, FiniteSets, Sequences, TLC

\* ------------------------------------------------------------------------
\* Bounds of the model
\* ------------------------------------------------------------------------
Count1 == 1
Count2 == 1
Count3 == 1
NumSessions == 2
MaxTime == 2
MaxEscalations == 2
MaxUnhealthy == 1
MaxRequests == 3
NumPublishers == 2
MaxReloads == 2
MaxLog == 2
\* session_ttl_seconds, in clock ticks
SessionTTL == 1

None == 0
NoTime == -1

Levels == 1..3
SessionIds == 1..NumSessions

\* PoolConfig.get_container_count
get_container_count(level) ==
    IF level = 1 THEN Count1 ELSE IF level = 2 THEN Count2 ELSE Count3

\* PoolConfig.get_all_containers: one container per unit of count and level
get_all_containers == {10 * l + i : l \in Levels, i \in 1..3} \cap
                      {c \in 11..39 : (c % 10) \in 1..get_container_count(c \div 10)}

Containers == get_all_containers

\* ContainerModel.level
Level(c) == c \div 10

VARIABLES
    containers,   \* container id -> [state, assigned_session_id, healthy]
    sessions,     \* session id -> session row, or NoSession
    committed,    \* the durable containers/sessions, as of the last commit
    now,          \* datetime.utcnow()
    sweep,        \* cleanup_expired_sessions in progress: pc, todo, count
    last,         \* the engine call that returned last
    entries,      \* nginx_map_entries rows: [session_cookie, session_id, upstream]
    mapfile,      \* the file at nginx_map_path
    tmpfile,      \* the file at nginx_map_path with suffix .tmp
    decision_log, \* decision_log rows, in insertion order
    req,          \* the API request being handled, and where its handler is
    issued,       \* number of API requests received so far
    pubs,         \* add/remove_session_mapping calls in progress, per caller
    reloaders,    \* reload_nginx calls, per caller: position and what was run
    reload_lock,  \* NginxWriter._reload_lock: the caller holding it, or None
    reported,     \* what get_pool_status returned last, per level
    script,       \* number of steps of the pool scenario done so far
    pool_lock,    \* PoolManager._lock: the task holding it, or None
    workers,      \* per task: where it is in a PoolManager call
    loop          \* session_cleanup_loop: where it is, and what it has done

\* State of the synchronizer's concurrent callers
task_vars == <<pubs, reloaders, reload_lock>>

\* What observers of the engine keep
\* The tasks that take PoolManager._lock, and the background loop
runtime_vars == <<pool_lock, workers, loop>>

observer_vars == <<reported, script, runtime_vars>>

\* The state of the synchronizer and of the API handlers
api_vars_sync == <<entries, mapfile, tmpfile, decision_log, req, issued>>

api_vars == <<api_vars_sync, task_vars, observer_vars>>

vars == <<containers, sessions, committed, now, sweep, last,
          entries, mapfile, tmpfile, decision_log, req, issued, task_vars,
          observer_vars>>

\* ------------------------------------------------------------------------
\* Rows
\* ------------------------------------------------------------------------
\* No row for this session id
NoSession ==
    [state |-> "absent", container_id |-> None, current_level |-> 0,
     escalation_count |-> 0, expires_at |-> NoTime, skill_score |-> 0]

\* SessionModel(id, current_level=1, state=ACTIVE), column defaults applied
NewSession ==
    [state |-> "active", container_id |-> None, current_level |-> 1,
     escalation_count |-> 0, expires_at |-> NoTime, skill_score |-> 0]

\* ContainerModel(state=IDLE, healthy=True) as created by initialize_pools
NewContainer ==
    [state |-> "idle", assigned_session_id |-> None, healthy |-> TRUE]

Call(op, sid, target, result) ==
    [op |-> op, sid |-> sid, target |-> target, result |-> result]

IdleSweep == [pc |-> "idle", todo |-> {}, count |-> 0]

\* No file at a path
NoFile == [exists |-> FALSE, directive |-> FALSE, rows |-> {}, open |-> 0,
           close |-> 0]

\* A task that is not inside a PoolManager call
NoWork ==
    [pc |-> "idle", op |-> "none", sid |-> None, level |-> 0, todo |-> {},
     calls |-> 0]

\* session_cleanup_loop when the task is created
NewLoop == [pc |-> "sleep", todo |-> {}, count |-> 0]

\* No pool scenario is being run
NoScript == [done |-> 0, a |-> None, b |-> None]

\* PoolStatus before any get_pool_status call
NoStatus == [total |-> 0, idle |-> 0, assigned |-> 0, unhealthy |-> 0]

\* A caller that has not called reload_nginx yet
NoReload ==
    [pc |-> "idle", calls |-> 0, probe |-> "none", test |-> "none",
     reload |-> "none", ran |-> <<>>, result |-> None]

\* No request is being handled
NoRequest ==
    [pc |-> "idle", sid |-> None, target |-> 0, score |-> 0,
     current_level |-> 0, current_container |-> None, skill_before |-> 0,
     container |-> None]

\* ------------------------------------------------------------------------
\* Store helpers
\* ------------------------------------------------------------------------
get_idle_containers_any_health(cs, level) ==
    {c \in DOMAIN cs : /\ Level(c) = level
                        /\ cs[c].state = "idle"}

\* database.get_idle_containers_by_level
get_idle_containers_by_level(cs, level) ==
    {c \in DOMAIN cs : /\ Level(c) = level
                        /\ cs[c].state = "idle"
                        /\ cs[c].healthy}

\* database.get_container_by_id followed by the `if container` test
container_exists(container_id) == container_id \in DOMAIN containers

release_container_keep_owner(cs, container_id) ==
    IF container_exists(container_id)
    THEN [cs EXCEPT ![container_id] = [@ EXCEPT !.state = "idle"]]
    ELSE cs

release_container_noop(cs, container_id) == cs

\* PoolManager._release_container
release_container(cs, container_id) ==
    IF container_exists(container_id)
    THEN [cs EXCEPT ![container_id] =
              [@ EXCEPT !.state = "idle", !.assigned_session_id = None]]
    ELSE cs

has_suitable_container_strict(cs, session, target_level) ==
    /\ session.container_id # None
    /\ session.current_level > target_level
    /\ container_exists(session.container_id)
    /\ cs[session.container_id].healthy

\* assign_container: "session already has a container at the same or higher
\* level" and that container is found and healthy
has_suitable_container(cs, session, target_level) ==
    /\ session.container_id # None
    /\ session.current_level >= target_level
    /\ container_exists(session.container_id)
    /\ cs[session.container_id].healthy

\* assign_container: "Assign container to session"
assign_to_session(cs, container_id, session_id) ==
    [cs EXCEPT ![container_id] =
        [@ EXCEPT !.state = "assigned", !.assigned_session_id = session_id]]

update_session_no_count(session, container_id, utcnow) ==
    [session EXCEPT !.container_id = container_id,
                    !.current_level = Level(container_id),
                    !.expires_at = utcnow + SessionTTL]

update_session_reactivate(session, container_id, utcnow) ==
    [session EXCEPT !.state = "active",
                    !.container_id = container_id,
                    !.current_level = Level(container_id),
                    !.escalation_count = @ + 1,
                    !.expires_at = utcnow + SessionTTL]

\* assign_container: "Update session"
update_session(session, container_id, utcnow) ==
    [session EXCEPT !.container_id = container_id,
                    !.current_level = Level(container_id),
                    !.escalation_count = @ + 1,
                    !.expires_at = utcnow + SessionTTL]

\* The level assign_container ends up searching successfully: the target
\* level first, then range(target_level + 1, 4) in order; 0 if none.
RECURSIVE find_level(_, _)
find_level(cs, level) ==
    IF level > 3 THEN 0
    ELSE IF get_idle_containers_by_level(cs, level) # {} THEN level
    ELSE find_level(cs, level + 1)

mark_released_keep_container(session) ==
    [session EXCEPT !.state = "released"]

\* release_session: "Update session state"
mark_released(session) ==
    [session EXCEPT !.state = "released", !.container_id = None]

Commit(cs, ss) == [containers |-> cs, sessions |-> ss]

\* ------------------------------------------------------------------------
\* Init
\* ------------------------------------------------------------------------
Init ==
    /\ containers = [c \in Containers |-> NewContainer]
    /\ sessions = [s \in SessionIds |-> NoSession]
    /\ committed = Commit(containers, sessions)
    /\ now = 0
    /\ sweep = IdleSweep
    /\ last = Call("init", None, 0, None)
    /\ entries = {}
    /\ mapfile = NoFile
    /\ tmpfile = NoFile
    /\ decision_log = <<>>
    /\ req = NoRequest
    /\ issued = 0
    /\ pubs = [p \in 1..NumPublishers |->
                 [pc |-> "idle", op |-> "none", sid |-> None,
                  session_cookie |-> 0, container |-> None, existing |-> {},
                  read |-> {}]]
    /\ reloaders = [r \in 1..NumPublishers |-> NoReload]
    /\ reload_lock = None
    /\ reported = [l \in Levels |-> NoStatus]
    /\ script = NoScript
    /\ pool_lock = None
    /\ workers = [w \in 1..NumPublishers |-> NoWork]
    /\ loop = NewLoop

\* ------------------------------------------------------------------------
\* Pool engine operations
\* ------------------------------------------------------------------------
assign_container_renew(session_id, target_level) ==
    LET session == IF sessions[session_id] = NoSession
                   THEN NewSession ELSE sessions[session_id]
        added == [sessions EXCEPT ![session_id] = session]
        held == session.container_id
    IN
    IF has_suitable_container(containers, session, target_level)
    THEN \* return the container the session already has
         /\ last' = Call("assign_existing", session_id, target_level, held)
         /\ sessions' = [sessions EXCEPT
                            ![session_id].expires_at = now + SessionTTL]
         /\ committed' = Commit(containers, sessions')
         /\ UNCHANGED containers
    ELSE LET released == IF held # None
                         THEN release_container(containers, held)
                         ELSE containers
             level == find_level(released, target_level)
         IN
         IF level = 0
         THEN \* pool exhausted: return None, no commit and no rollback
              /\ containers' = released
              /\ sessions' = added
              /\ UNCHANGED committed
              /\ last' = Call("assign_exhausted", session_id, target_level, None)
         ELSE \* _find_idle_container: containers[0] of a query without ORDER BY
              \E c \in get_idle_containers_by_level(released, level) :
              /\ session.escalation_count < MaxEscalations
              /\ containers' = assign_to_session(released, c, session_id)
              /\ sessions' = [added EXCEPT ![session_id] =
                                  update_session(session, c, now)]
              /\ committed' = Commit(containers', sessions')
              /\ last' = Call("assign_new", session_id, target_level, c)

\* PoolManager.assign_container, the body under self._lock
assign_container(session_id, target_level) ==
    LET session == IF sessions[session_id] = NoSession
                   THEN NewSession ELSE sessions[session_id]
        added == [sessions EXCEPT ![session_id] = session]
        held == session.container_id
    IN
    IF has_suitable_container(containers, session, target_level)
    THEN \* return the container the session already has
         /\ last' = Call("assign_existing", session_id, target_level, held)
         /\ UNCHANGED <<containers, sessions, committed>>
    ELSE LET released == IF held # None
                         THEN release_container(containers, held)
                         ELSE containers
             level == find_level(released, target_level)
         IN
         IF level = 0
         THEN \* pool exhausted: return None, no commit and no rollback
              /\ containers' = released
              /\ sessions' = added
              /\ UNCHANGED committed
              /\ last' = Call("assign_exhausted", session_id, target_level, None)
         ELSE \* _find_idle_container: containers[0] of a query without ORDER BY
              \E c \in get_idle_containers_by_level(released, level) :
              /\ session.escalation_count < MaxEscalations
              /\ containers' = assign_to_session(released, c, session_id)
              /\ sessions' = [added EXCEPT ![session_id] =
                                  update_session(session, c, now)]
              /\ committed' = Commit(containers', sessions')
              /\ last' = Call("assign_new", session_id, target_level, c)

\* PoolManager.release_session, the body under self._lock
release_session(session_id) ==
    LET session == sessions[session_id] IN
    IF session = NoSession
    THEN /\ last' = Call("release", session_id, 0, 0)
         /\ UNCHANGED <<containers, sessions, committed>>
    ELSE /\ containers' = IF session.container_id # None
                          THEN release_container(containers, session.container_id)
                          ELSE containers
         /\ sessions' = [sessions EXCEPT ![session_id] = mark_released(session)]
         /\ committed' = Commit(containers', sessions')
         /\ last' = Call("release", session_id, 0, 1)

\* The rows cleanup_expired_sessions selects
expired_sessions ==
    {s \in SessionIds : /\ sessions[s].state = "active"
                        /\ sessions[s].expires_at # NoTime
                        /\ sessions[s].expires_at < now}

log_decision_replace(log, log_entry) == <<log_entry>>

\* PoolManager.log_decision: db.add(log_entry), the table in id order
log_decision(log, log_entry) == Append(log, log_entry)

get_pool_status_healthy_idle(cs, level) ==
    LET pool == {c \in DOMAIN cs : Level(c) = level} IN
    [total |-> Cardinality(pool),
     idle |-> Cardinality({c \in pool : cs[c].state = "idle" /\ cs[c].healthy}),
     assigned |-> Cardinality({c \in pool : cs[c].state = "assigned"}),
     unhealthy |-> Cardinality({c \in pool : ~cs[c].healthy})]

\* PoolManager.get_pool_status: the four counts of one level
get_pool_status(cs, level) ==
    LET pool == {c \in DOMAIN cs : Level(c) = level} IN
    [total |-> Cardinality(pool),
     idle |-> Cardinality({c \in pool : cs[c].state = "idle"}),
     assigned |-> Cardinality({c \in pool : cs[c].state = "assigned"}),
     unhealthy |-> Cardinality({c \in pool : ~cs[c].healthy})]

initialize_pools_reset(cs) == [c \in Containers |-> NewContainer]

\* PoolManager.initialize_pools: a row for every configured container that
\* has none; rows that exist are skipped
initialize_pools(cs) ==
    [c \in DOMAIN cs \cup Containers |->
        IF c \in DOMAIN cs THEN cs[c] ELSE NewContainer]

mark_container_health_drop(container_id, healthy) ==
    /\ containers' = [containers EXCEPT ![container_id] =
           IF healthy
           THEN [@ EXCEPT !.healthy = healthy]
           ELSE [@ EXCEPT !.healthy = healthy, !.state = "idle",
                          !.assigned_session_id = None]]
    /\ committed' = Commit(containers', sessions)
    /\ last' = Call("health", None, 0, None)
    /\ UNCHANGED sessions

mark_container_health_label(container_id, healthy) ==
    /\ containers' = [containers EXCEPT ![container_id] =
           IF healthy \/ @.state = "assigned"
           THEN [@ EXCEPT !.healthy = healthy]
           ELSE [@ EXCEPT !.healthy = healthy, !.state = "unhealthy"]]
    /\ committed' = Commit(containers', sessions)
    /\ last' = Call("health", None, 0, None)
    /\ UNCHANGED sessions

\* PoolManager.mark_container_health
mark_container_health(container_id, healthy) ==
    /\ containers' = [containers EXCEPT ![container_id].healthy = healthy]
    /\ committed' = Commit(containers', sessions)
    /\ last' = Call("health", None, 0, None)
    /\ UNCHANGED sessions

\* ------------------------------------------------------------------------
\* Actions of the engine
\* ------------------------------------------------------------------------
AssignContainer ==
    \E s \in SessionIds, t \in Levels :
        /\ assign_container(s, t)
        /\ UNCHANGED <<now, sweep, api_vars>>

ReleaseSession ==
    \E s \in SessionIds :
        /\ release_session(s)
        /\ UNCHANGED <<now, sweep, api_vars>>

\* cleanup_expired_sessions: the scan, outside the lock
CleanupScan ==
    /\ sweep.pc = "idle"
    /\ sweep' = [pc |-> "release", todo |-> expired_sessions, count |-> 0]
    /\ last' = Call("cleanup_scan", None, 0, None)
    /\ UNCHANGED <<containers, sessions, committed, now, api_vars>>

\* cleanup_expired_sessions: one iteration of the loop over the scanned rows
CleanupRelease ==
    /\ sweep.pc = "release"
    /\ \E s \in sweep.todo :
        /\ release_session(s)
        /\ sweep' = [sweep EXCEPT !.todo = @ \ {s}, !.count = @ + 1]
    /\ UNCHANGED <<now, api_vars>>

\* cleanup_expired_sessions: return count
CleanupReturn ==
    /\ sweep.pc = "release"
    /\ sweep.todo = {}
    /\ sweep' = IdleSweep
    /\ last' = Call("cleanup", None, 0, sweep.count)
    /\ UNCHANGED <<containers, sessions, committed, now, api_vars>>

MarkContainerHealth ==
    \E c \in Containers, h \in BOOLEAN :
        /\ containers[c].healthy # h
        /\ h = FALSE =>
             Cardinality({d \in Containers : ~containers[d].healthy}) < MaxUnhealthy
        /\ mark_container_health(c, h)
        /\ UNCHANGED <<now, sweep, api_vars>>

\* PoolManager.initialize_pools called again (POST /admin/pools/reinitialize)
InitializePools ==
    /\ containers' = initialize_pools(containers)
    /\ committed' = Commit(containers', sessions)
    /\ last' = Call("initialize_pools", None, 0, None)
    /\ UNCHANGED <<sessions, now, sweep, api_vars>>

\* The process is restarted: what the handle had not committed is gone,
\* then lifespan calls initialize_pools on the store
Restart ==
    /\ containers' = initialize_pools(committed.containers)
    /\ sessions' = committed.sessions
    /\ committed' = Commit(containers', sessions')
    /\ last' = Call("restart", None, 0, None)
    /\ UNCHANGED <<now, sweep, api_vars>>

\* PoolManager.log_decision called for any session id, then the commit
LogDecision ==
    /\ Len(decision_log) < MaxLog
    /\ \E s \in SessionIds :
        /\ decision_log' = log_decision(decision_log,
               [session_id |-> s, target |-> 0,
                skill_score_before |-> 0, skill_score_after |-> 0,
                from_container |-> None, to_container |-> None])
        /\ last' = Call("log", s, 0, None)
    /\ committed' = Commit(containers, sessions)
    /\ UNCHANGED <<containers, sessions, now, sweep, entries, mapfile, tmpfile,
                   req, issued, task_vars, observer_vars>>

\* PoolManager.get_pool_status, for levels 1, 2, 3
GetPoolStatus ==
    /\ reported' = [l \in Levels |-> get_pool_status(containers, l)]
    /\ reported' # reported
    /\ last' = Call("pool_status", None, 0, None)
    /\ UNCHANGED <<containers, sessions, committed, now, sweep, api_vars_sync,
                   task_vars, script, runtime_vars>>

\* The caller discards the handle's uncommitted changes
Rollback ==
    /\ Commit(containers, sessions) # committed
    /\ containers' = committed.containers
    /\ sessions' = committed.sessions
    /\ last' = Call("rollback", None, 0, None)
    /\ UNCHANGED <<committed, now, sweep, api_vars>>

Tick ==
    /\ now < MaxTime
    /\ now' = now + 1
    /\ last' = Call("tick", None, 0, None)
    /\ UNCHANGED <<containers, sessions, committed, sweep, api_vars>>

Next ==
    \/ AssignContainer
    \/ ReleaseSession
    \/ CleanupScan
    \/ CleanupRelease
    \/ CleanupReturn
    \/ MarkContainerHealth
    \/ Rollback
    \/ Tick

Spec == Init /\ [][Next]_vars

\* ------------------------------------------------------------------------
\* Start-up from an empty store, reinitialization and restarts
\* ------------------------------------------------------------------------
\* init_db on a new database file: no container row yet
EmptyInit ==
    /\ containers = [c \in {} |-> NewContainer]
    /\ sessions = [s \in SessionIds |-> NoSession]
    /\ committed = Commit(containers, sessions)
    /\ now = 0
    /\ sweep = IdleSweep
    /\ last = Call("init_db", None, 0, None)
    /\ entries = {}
    /\ mapfile = NoFile
    /\ tmpfile = NoFile
    /\ decision_log = <<>>
    /\ req = NoRequest
    /\ issued = 0
    /\ pubs = [p \in 1..NumPublishers |->
                 [pc |-> "idle", op |-> "none", sid |-> None,
                  session_cookie |-> 0, container |-> None, existing |-> {},
                  read |-> {}]]
    /\ reloaders = [r \in 1..NumPublishers |-> NoReload]
    /\ reload_lock = None
    /\ reported = [l \in Levels |-> NoStatus]
    /\ script = NoScript
    /\ pool_lock = None
    /\ workers = [w \in 1..NumPublishers |-> NoWork]
    /\ loop = NewLoop

\* lifespan has run initialize_pools: requests are served
Initialized == DOMAIN containers # {}

ServeAssign == Initialized /\ AssignContainer

ServeRelease == Initialized /\ ReleaseSession

ServeHealth == Initialized /\ MarkContainerHealth

ServeRollback == Initialized /\ Rollback

NextStartup ==
    \/ InitializePools
    \/ Restart
    \/ ServeAssign
    \/ ServeRelease
    \/ ServeHealth
    \/ ServeRollback

SpecStartup == EmptyInit /\ [][NextStartup]_vars

\* Engine calls and the sweep with log_decision called in between
NextLog ==
    \/ AssignContainer
    \/ ReleaseSession
    \/ CleanupScan
    \/ CleanupRelease
    \/ CleanupReturn
    \/ Tick
    \/ LogDecision

SpecLog == Init /\ [][NextLog]_vars

\* Engine calls and health updates with get_pool_status called in between
NextStatus ==
    \/ AssignContainer
    \/ ReleaseSession
    \/ MarkContainerHealth
    \/ GetPoolStatus

SpecStatus == Init /\ [][NextStatus]_vars

\* ------------------------------------------------------------------------
\* The pool scenario: 2 level-1 containers, 1 level-2, 0 level-3
\* ------------------------------------------------------------------------
ScenarioCounts == <<2, 1, 0>>

ScenarioPool ==
    {c \in 11..39 : (c % 10) \in 1..ScenarioCounts[c \div 10]}

\* The calls of the scenario, in order, for sessions a and b
ScenarioCalls(a, b) ==
    <<[op |-> "assign", sid |-> a, level |-> 2],
      [op |-> "assign", sid |-> b, level |-> 2],
      [op |-> "assign", sid |-> b, level |-> 1],
      [op |-> "release", sid |-> a, level |-> 0],
      [op |-> "pool_status", sid |-> None, level |-> 0]>>

ScenarioLength == Len(ScenarioCalls(None, None))

\* initialize_pools with the scenario's counts: every container idle and
\* healthy, no session
ScenarioInit ==
    /\ containers = [c \in ScenarioPool |-> NewContainer]
    /\ sessions = [s \in SessionIds |-> NoSession]
    /\ committed = Commit(containers, sessions)
    /\ now = 0
    /\ sweep = IdleSweep
    /\ last = Call("init", None, 0, None)
    /\ entries = {}
    /\ mapfile = NoFile
    /\ tmpfile = NoFile
    /\ decision_log = <<>>
    /\ req = NoRequest
    /\ issued = 0
    /\ pubs = [p \in 1..NumPublishers |->
                 [pc |-> "idle", op |-> "none", sid |-> None,
                  session_cookie |-> 0, container |-> None, existing |-> {},
                  read |-> {}]]
    /\ reloaders = [r \in 1..NumPublishers |-> NoReload]
    /\ reload_lock = None
    /\ reported = [l \in Levels |-> NoStatus]
    /\ \E a, b \in SessionIds :
          /\ a # b
          /\ script = [done |-> 0, a |-> a, b |-> b]
    /\ pool_lock = None
    /\ workers = [w \in 1..NumPublishers |-> NoWork]
    /\ loop = NewLoop

\* The next call of the scenario
ScenarioStep ==
    /\ script.done < ScenarioLength
    /\ LET call == ScenarioCalls(script.a, script.b)[script.done + 1] IN
        IF call.op = "assign"
        THEN /\ assign_container(call.sid, call.level)
             /\ UNCHANGED reported
        ELSE IF call.op = "release"
        THEN /\ release_session(call.sid)
             /\ UNCHANGED reported
        ELSE /\ reported' = [l \in Levels |-> get_pool_status(containers, l)]
             /\ last' = Call("pool_status", None, 0, None)
             /\ UNCHANGED <<containers, sessions, committed>>
    /\ script' = [script EXCEPT !.done = script.done + 1]
    /\ UNCHANGED <<now, sweep, api_vars_sync, task_vars, runtime_vars>>

\* Calls that arrive after the scenario
ScenarioAfterAssign == script.done = ScenarioLength /\ AssignContainer

ScenarioAfterRelease == script.done = ScenarioLength /\ ReleaseSession

NextScenario ==
    \/ ScenarioStep
    \/ Rollback
    \/ Tick
    \/ ScenarioAfterAssign
    \/ ScenarioAfterRelease

SpecScenario == ScenarioInit /\ [][NextScenario]_vars

\* cleanup_expired_sessions called while nothing else runs: every other
\* operation starts and ends between two sweeps
NextCleanup ==
    \/ sweep.pc = "idle" /\ AssignContainer
    \/ sweep.pc = "idle" /\ ReleaseSession
    \/ sweep.pc = "idle" /\ MarkContainerHealth
    \/ sweep.pc = "idle" /\ Rollback
    \/ sweep.pc = "idle" /\ Tick
    \/ CleanupScan
    \/ CleanupRelease
    \/ CleanupReturn

SpecCleanup == Init /\ [][NextCleanup]_vars

\* session_cleanup_loop is a `while True` task and the clock advances: the
\* sweep's steps and the clock are never postponed forever
SpecReclaim ==
    /\ Init
    /\ [][NextCleanup]_vars
    /\ WF_vars(CleanupScan)
    /\ WF_vars(CleanupRelease)
    /\ WF_vars(CleanupReturn)
    /\ WF_vars(sweep.pc = "idle" /\ Tick)

TypeOK ==
    /\ \A c \in Containers :
          /\ containers[c].state \in {"idle", "assigned"}
          /\ containers[c].assigned_session_id \in SessionIds \cup {None}
    /\ \A s \in SessionIds :
          sessions[s].state \in {"absent", "active", "released"}
    /\ now \in 0..MaxTime

\* ------------------------------------------------------------------------
\* Routing synchronizer (nginx_writer.py)
\* ------------------------------------------------------------------------
\* pools.<level>.base_port of the default pool configuration
base_port(level) ==
    IF level = 1 THEN 8081 ELSE IF level = 2 THEN 8091 ELSE 8101

\* ContainerModel.address, "host:port", of the container get_all_containers
\* derives: hosts 10.0.2.<n> counted from .2 over all containers in level
\* order, port = base_port + index within the level
address(c) ==
    [host |-> 1 + Cardinality({d \in Containers : d <= c}),
     port |-> base_port(Level(c)) + (c % 10) - 1]

\* PoolManager.generate_session_cookie: a digest of the session id and the
\* time of the call; stamp stands for that time, distinct for every request
generate_session_cookie(session_id, stamp) == 10 * stamp + session_id

\* Session ids are caller-supplied strings (EscalationDecision.session_id);
\* these ids stand for strings that contain one "{" and no "}"
UnbalancedIds == {NumSessions}

\* NGINX_MAP_TEMPLATE rendered from the entries table: the map directive,
\* one row per entry, and the braces of the text: those of the map block
\* and those of each "# Session: <session_id>" line
render(es) ==
    [exists |-> TRUE,
     directive |-> TRUE,
     rows |-> {<<e.session_cookie, e.upstream>> : e \in es},
     open |-> 1 + Cardinality({e \in es : e.session_id \in UnbalancedIds}),
     close |-> 1]

\* NginxWriter._validate_config
validate_config(content) ==
    /\ content.directive
    /\ content.open = content.close

\* What write_map_file logs
Written == 1
ValidationFailed == 2
Failed == 3

\* How the file system behaves during a write_map_file call
IoOutcomes == {"ok", "raise_before_write", "raise_at_rename"}

write_map_file_direct(es, io) ==
    LET content == render(es) IN
    IF io = "raise_before_write"
    THEN [mapfile |-> mapfile, tmpfile |-> tmpfile, result |-> 0,
          logged |-> Failed]
    ELSE IF ~validate_config(content)
    THEN [mapfile |-> content, tmpfile |-> NoFile, result |-> 0,
          logged |-> ValidationFailed]
    ELSE [mapfile |-> content, tmpfile |-> NoFile, result |-> 1,
          logged |-> Written]

\* NginxWriter.write_map_file: render the table, write the render to the
\* temporary path, validate it, and rename it onto the map path; unlink
\* the temporary file if validation fails; return False on any exception
write_map_file(es, io) ==
    LET content == render(es) IN
    IF io = "raise_before_write"
    THEN [mapfile |-> mapfile, tmpfile |-> tmpfile, result |-> 0,
          logged |-> Failed]
    ELSE IF ~validate_config(content)
    THEN [mapfile |-> mapfile, tmpfile |-> NoFile, result |-> 0,
          logged |-> ValidationFailed]
    ELSE IF io = "raise_at_rename"
    THEN [mapfile |-> mapfile, tmpfile |-> content, result |-> 0,
          logged |-> Failed]
    ELSE [mapfile |-> content, tmpfile |-> NoFile, result |-> 1,
          logged |-> Written]

upsert_entry_append(es, session_id, session_cookie, upstream) ==
    es \cup {[session_cookie |-> session_cookie, session_id |-> session_id,
              upstream |-> upstream]}

upsert_entry_insert_only(es, session_id, session_cookie, upstream) ==
    IF \E e \in es : e.session_id = session_id
    THEN es
    ELSE es \cup {[session_cookie |-> session_cookie,
                   session_id |-> session_id, upstream |-> upstream]}

\* NginxWriter.add_session_mapping: the table after the upsert
upsert_entry(es, session_id, session_cookie, upstream) ==
    {e \in es : e.session_id # session_id} \cup
        {[session_cookie |-> session_cookie, session_id |-> session_id,
          upstream |-> upstream]}

\* NginxWriter.remove_session_mapping: the table after the delete
delete_entries(es, session_id) == {e \in es : e.session_id # session_id}

\* ------------------------------------------------------------------------
\* API handlers (main.py); one request is handled at a time
\* ------------------------------------------------------------------------
EscalationActions ==
    {"escalate_to_level_2", "escalate_to_level_3", "maintain", "release"}

\* EscalationDecision.skill_score_after values used: the two ends of the
\* accepted range
Scores == {0, 10}

\* skill_score_after values next to the two ends, outside the range
InvalidScores == {-1, 11}

ScoreInputs == Scores \cup InvalidScores

skill_score_valid_no_upper(score) == score >= 0

\* EscalationDecision.skill_score_after: Field(..., ge=0, le=10)
skill_score_valid(score) == score >= 0 /\ score <= 10

\* escalate: "Determine target level based on action"
target_level_of(action) ==
    IF action = "escalate_to_level_2" THEN 2
    ELSE IF action = "escalate_to_level_3" THEN 3
    ELSE 0

\* get_db_session: commit when the handler returns normally
Done ==
    /\ req' = NoRequest
    /\ committed' = Commit(containers', sessions')

\* POST /escalate with a body that EscalationDecision does not accept: the
\* request is answered 422 and escalate is not entered
EscalateReject ==
    /\ req.pc = "idle"
    /\ \E s \in SessionIds, a \in EscalationActions, score \in ScoreInputs :
        /\ ~skill_score_valid(score)
        /\ last' = Call("escalate_rejected", s, target_level_of(a), score)
    /\ UNCHANGED <<containers, sessions, committed, now, sweep, entries,
                   mapfile, tmpfile, decision_log, req, issued>>
    /\ UNCHANGED <<task_vars, observer_vars>>

EscalateBeginAlwaysAssign ==
    /\ req.pc = "idle"
    /\ issued < MaxRequests
    /\ \E s \in SessionIds, a \in EscalationActions, score \in ScoreInputs :
        LET current_session == sessions[s]
            found == current_session # NoSession
            current_level == IF found THEN current_session.current_level ELSE 1
            started == [pc |-> "assign", sid |-> s,
                        target |-> target_level_of(a), score |-> score,
                        current_level |-> current_level,
                        current_container |->
                            IF found THEN current_session.container_id ELSE None,
                        skill_before |->
                            IF found THEN current_session.skill_score ELSE 0,
                        container |-> None]
        IN
        /\ skill_score_valid(score)
        /\ issued' = issued + 1
        /\ last' = Call("escalate", s, target_level_of(a), None)
        /\ UNCHANGED <<containers, sessions, now, sweep, entries, mapfile,
                       tmpfile,
                       decision_log>>
        /\ IF a = "release" /\ found
           THEN /\ req' = [started EXCEPT !.pc = "esc_release"]
                /\ UNCHANGED committed
           ELSE IF a \in {"release", "maintain"}
           THEN Done
           ELSE /\ req' = started
                /\ UNCHANGED committed
    /\ UNCHANGED <<task_vars, observer_vars>>

\* escalate, up to the call of assign_container or release_session
EscalateBegin ==
    /\ req.pc = "idle"
    /\ issued < MaxRequests
    /\ \E s \in SessionIds, a \in EscalationActions, score \in ScoreInputs :
        LET current_session == sessions[s]
            found == current_session # NoSession
            current_level == IF found THEN current_session.current_level ELSE 1
            started == [pc |-> "assign", sid |-> s,
                        target |-> target_level_of(a), score |-> score,
                        current_level |-> current_level,
                        current_container |->
                            IF found THEN current_session.container_id ELSE None,
                        skill_before |->
                            IF found THEN current_session.skill_score ELSE 0,
                        container |-> None]
        IN
        /\ skill_score_valid(score)
        /\ issued' = issued + 1
        /\ last' = Call("escalate", s, target_level_of(a),
                        IF /\ a \notin {"release", "maintain"}
                           /\ current_level >= target_level_of(a)
                        THEN started.current_container
                        ELSE None)
        /\ UNCHANGED <<containers, sessions, now, sweep, entries, mapfile,
                       tmpfile,
                       decision_log>>
        /\ IF a = "release" /\ found
           THEN /\ req' = [started EXCEPT !.pc = "esc_release"]
                /\ UNCHANGED committed
           ELSE IF a \in {"release", "maintain"}
                   \/ current_level >= target_level_of(a)
           THEN Done
           ELSE /\ req' = started
                /\ UNCHANGED committed
    /\ UNCHANGED <<task_vars, observer_vars>>

EscalateAssignContinue ==
    /\ req.pc = "assign"
    /\ assign_container(req.sid, req.target)
    /\ req' = IF last'.op = "assign_exhausted"
              THEN [req EXCEPT !.pc = "log"]
              ELSE [req EXCEPT !.pc = "score", !.container = last'.result]
    /\ UNCHANGED <<now, sweep, entries, mapfile, tmpfile, decision_log, issued>>
    /\ UNCHANGED <<task_vars, observer_vars>>

\* escalate: pm.assign_container; 503 if it returns None
EscalateAssign ==
    /\ req.pc = "assign"
    /\ assign_container(req.sid, req.target)
    /\ req' = IF last'.op = "assign_exhausted"
              THEN NoRequest
              ELSE [req EXCEPT !.pc = "score", !.container = last'.result]
    /\ UNCHANGED <<now, sweep, entries, mapfile, tmpfile, decision_log, issued>>
    /\ UNCHANGED <<task_vars, observer_vars>>

\* escalate: pm.update_session_score
EscalateScore ==
    /\ req.pc = "score"
    /\ sessions' = IF sessions[req.sid] # NoSession
                   THEN [sessions EXCEPT ![req.sid].skill_score = req.score]
                   ELSE sessions
    /\ committed' = IF sessions[req.sid] # NoSession
                    THEN Commit(containers, sessions')
                    ELSE committed
    /\ req' = [req EXCEPT !.pc = "publish"]
    /\ last' = Call("score", req.sid, 0, None)
    /\ UNCHANGED <<containers, now, sweep, entries, mapfile, tmpfile,
                   decision_log,
                   issued>>
    /\ UNCHANGED <<task_vars, observer_vars>>

\* escalate: nginx_writer.add_session_mapping with a fresh cookie
EscalatePublish ==
    /\ req.pc = "publish"
    /\ \E io \in IoOutcomes :
        /\ entries' = upsert_entry(entries, req.sid,
                                   generate_session_cookie(req.sid, issued),
                                   address(req.container))
        /\ mapfile' = write_map_file(entries', io).mapfile
        /\ tmpfile' = write_map_file(entries', io).tmpfile
        /\ last' = Call("publish", req.sid,
                        write_map_file(entries', io).logged,
                        write_map_file(entries', io).result)
    /\ committed' = Commit(containers, sessions)
    /\ req' = [req EXCEPT !.pc = "reload"]
    /\ UNCHANGED <<containers, sessions, now, sweep, decision_log, issued>>
    /\ UNCHANGED <<task_vars, observer_vars>>

\* escalate: nginx_writer.reload_nginx, its result is not looked at
EscalateReload ==
    /\ req.pc = "reload"
    /\ req' = [req EXCEPT !.pc = "log"]
    /\ last' = Call("reload", req.sid, 0, None)
    /\ UNCHANGED <<containers, sessions, committed, now, sweep, entries,
                   mapfile, tmpfile, decision_log, issued>>
    /\ UNCHANGED <<task_vars, observer_vars>>

\* escalate: pm.log_decision, then the response
EscalateLog ==
    /\ req.pc = "log"
    /\ decision_log' = log_decision(decision_log,
           [session_id |-> req.sid, target |-> req.target,
            skill_score_before |-> req.skill_before,
            skill_score_after |-> req.score,
            from_container |-> req.current_container,
            to_container |-> req.container])
    /\ last' = Call("log", req.sid, 0, None)
    /\ UNCHANGED <<containers, sessions, now, sweep, entries, mapfile,
                   tmpfile, issued>>
    /\ Done
    /\ UNCHANGED <<task_vars, observer_vars>>

\* escalate with action release: pm.release_session
EscalateRelease ==
    /\ req.pc = "esc_release"
    /\ release_session(req.sid)
    /\ req' = [req EXCEPT !.pc = "esc_unmap"]
    /\ UNCHANGED <<now, sweep, entries, mapfile, tmpfile, decision_log, issued>>
    /\ UNCHANGED <<task_vars, observer_vars>>

\* escalate with action release: nginx_writer.remove_session_mapping
EscalateUnmap ==
    /\ req.pc = "esc_unmap"
    /\ \E io \in IoOutcomes :
        /\ entries' = delete_entries(entries, req.sid)
        /\ mapfile' = write_map_file(entries', io).mapfile
        /\ tmpfile' = write_map_file(entries', io).tmpfile
        /\ last' = Call("unmap", req.sid,
                        write_map_file(entries', io).logged,
                        write_map_file(entries', io).result)
    /\ UNCHANGED <<containers, sessions, now, sweep, decision_log, issued>>
    /\ Done
    /\ UNCHANGED <<task_vars, observer_vars>>

\* POST /session/{id}/release: pm.release_session; 404 if it returns False
ReleaseBegin ==
    /\ req.pc = "idle"
    /\ issued < MaxRequests
    /\ \E s \in SessionIds :
        /\ release_session(s)
        /\ req' = IF last'.result = 0
                  THEN NoRequest
                  ELSE [NoRequest EXCEPT !.pc = "rel_unmap", !.sid = s]
    /\ issued' = issued + 1
    /\ UNCHANGED <<now, sweep, entries, mapfile, tmpfile, decision_log>>
    /\ UNCHANGED <<task_vars, observer_vars>>

\* POST /session/{id}/release: nginx_writer.remove_session_mapping
ReleaseUnmap ==
    /\ req.pc = "rel_unmap"
    /\ \E io \in IoOutcomes :
        /\ entries' = delete_entries(entries, req.sid)
        /\ mapfile' = write_map_file(entries', io).mapfile
        /\ tmpfile' = write_map_file(entries', io).tmpfile
        /\ last' = Call("unmap", req.sid,
                        write_map_file(entries', io).logged,
                        write_map_file(entries', io).result)
    /\ committed' = Commit(containers, sessions)
    /\ req' = [req EXCEPT !.pc = "rel_reload"]
    /\ UNCHANGED <<containers, sessions, now, sweep, decision_log, issued>>
    /\ UNCHANGED <<task_vars, observer_vars>>

\* POST /session/{id}/release: nginx_writer.reload_nginx, then the response
ReleaseReload ==
    /\ req.pc = "rel_reload"
    /\ last' = Call("reload", req.sid, 0, None)
    /\ UNCHANGED <<containers, sessions, now, sweep, entries, mapfile,
                   tmpfile,
                   decision_log, issued>>
    /\ Done
    /\ UNCHANGED <<task_vars, observer_vars>>

\* session_cleanup_loop: after cleanup_expired_sessions returned count,
\* write the map file if count > 0; the handle is committed at the end
CleanupLoopEnd ==
    /\ sweep.pc = "release"
    /\ sweep.todo = {}
    /\ IF sweep.count > 0
       THEN \E io \in IoOutcomes :
               /\ mapfile' = write_map_file(entries, io).mapfile
               /\ tmpfile' = write_map_file(entries, io).tmpfile
               /\ last' = Call("cleanup", None,
                               write_map_file(entries, io).logged, sweep.count)
       ELSE /\ UNCHANGED <<mapfile, tmpfile>>
            /\ last' = Call("cleanup", None, 0, sweep.count)
    /\ sweep' = IdleSweep
    /\ committed' = Commit(containers, sessions)
    /\ UNCHANGED <<containers, sessions, now, entries, decision_log, req,
                   issued>>
    /\ UNCHANGED <<task_vars, observer_vars>>

NextApi ==
    \/ EscalateBegin
    \/ EscalateAssign
    \/ EscalateScore
    \/ EscalatePublish
    \/ EscalateReload
    \/ EscalateLog
    \/ EscalateRelease
    \/ EscalateUnmap
    \/ ReleaseBegin
    \/ ReleaseUnmap
    \/ ReleaseReload
    \/ CleanupScan
    \/ CleanupRelease
    \/ CleanupLoopEnd
    \/ Rollback
    \/ Tick

SpecApi == Init /\ [][NextApi]_vars

\* POST /escalate requests whose bodies are accepted or not, one at a time
NextEscalate ==
    \/ EscalateReject
    \/ EscalateBegin
    \/ EscalateAssign
    \/ EscalateScore
    \/ EscalatePublish
    \/ EscalateReload
    \/ EscalateLog
    \/ EscalateRelease
    \/ EscalateUnmap
    \/ Tick

SpecEscalate == Init /\ [][NextEscalate]_vars

\* ------------------------------------------------------------------------
\* Concurrent callers of add_session_mapping and remove_session_mapping.
\* Every request has its own database handle (main.get_db); a caller is
\* suspended at each await of a database call.
\* ------------------------------------------------------------------------
Publishers == 1..NumPublishers

\* The caller is not inside a synchronizer call
NoCall ==
    [pc |-> "idle", op |-> "none", sid |-> None, session_cookie |-> 0,
     container |-> None, existing |-> {}, read |-> {}]

\* add_session_mapping: the select by session_id; scalar_one_or_none raises
\* when it finds more than one row, and the call returns False
PublishSelect ==
    \E p \in Publishers, s \in SessionIds, c \in Containers :
        /\ pubs[p].pc = "idle"
        /\ issued < MaxRequests
        /\ issued' = issued + 1
        /\ LET found == {e \in entries : e.session_id = s} IN
           IF Cardinality(found) > 1
           THEN /\ pubs' = pubs
                /\ last' = Call("publish", s, Failed, 0)
           ELSE /\ pubs' = [pubs EXCEPT ![p] =
                      [pc |-> "commit", op |-> "publish", sid |-> s,
                       session_cookie |-> generate_session_cookie(s, issued'),
                       container |-> c, existing |-> found, read |-> {}]]
                /\ last' = Call("publish_select", s, 0, Cardinality(found))
        /\ UNCHANGED <<containers, sessions, committed, now, sweep, entries,
                       mapfile, tmpfile, decision_log, req>>
        /\ UNCHANGED <<reloaders, reload_lock, observer_vars>>

\* add_session_mapping: update the row found, or add a row, and commit.
\* The update of a row that is no longer in the table matches no row:
\* the commit raises and the call returns False
PublishCommit ==
    \E p \in Publishers :
        LET call == pubs[p]
            row == [session_cookie |-> call.session_cookie,
                    session_id |-> call.sid,
                    upstream |-> address(call.container)]
        IN
        /\ call.pc = "commit"
        /\ IF call.existing = {}
           THEN /\ entries' = entries \cup {row}
                /\ pubs' = [pubs EXCEPT ![p].pc = "write"]
                /\ last' = Call("publish_commit", call.sid, 0, 1)
           ELSE IF call.existing \subseteq entries
           THEN /\ entries' = (entries \ call.existing) \cup {row}
                /\ pubs' = [pubs EXCEPT ![p].pc = "write"]
                /\ last' = Call("publish_commit", call.sid, 0, 1)
           ELSE /\ entries' = entries
                /\ pubs' = [pubs EXCEPT ![p] = NoCall]
                /\ last' = Call("publish", call.sid, Failed, 0)
        /\ UNCHANGED <<containers, sessions, committed, now, sweep, mapfile,
                       tmpfile, decision_log, req, issued>>
        /\ UNCHANGED <<reloaders, reload_lock, observer_vars>>

\* remove_session_mapping: the delete by session_id and the commit
RemoveDelete ==
    \E p \in Publishers, s \in SessionIds :
        /\ pubs[p].pc = "idle"
        /\ issued < MaxRequests
        /\ issued' = issued + 1
        /\ entries' = delete_entries(entries, s)
        /\ pubs' = [pubs EXCEPT ![p] =
                        [NoCall EXCEPT !.pc = "write", !.op = "unmap", !.sid = s]]
        /\ last' = Call("unmap_delete", s, 0, None)
        /\ UNCHANGED <<containers, sessions, committed, now, sweep, mapfile,
                       tmpfile, decision_log, req>>
        /\ UNCHANGED <<reloaders, reload_lock, observer_vars>>

\* write_map_file: "Get all map entries from database", the await at
\* which the caller is suspended
SyncRead ==
    \E p \in Publishers :
        /\ pubs[p].pc = "write"
        /\ pubs' = [pubs EXCEPT ![p] = [@ EXCEPT !.pc = "install",
                                                 !.read = entries]]
        /\ last' = Call("sync_read", pubs[p].sid, 0, None)
        /\ UNCHANGED <<containers, sessions, committed, now, sweep, entries,
                       mapfile, tmpfile, decision_log, req, issued>>
        /\ UNCHANGED <<reloaders, reload_lock, observer_vars>>

\* add/remove_session_mapping: the rest of write_map_file, on the entries
\* it read; what it returns is returned
SyncWrite ==
    \E p \in Publishers, io \in IoOutcomes :
        /\ pubs[p].pc = "install"
        /\ mapfile' = write_map_file(pubs[p].read, io).mapfile
        /\ tmpfile' = write_map_file(pubs[p].read, io).tmpfile
        /\ last' = Call(pubs[p].op, pubs[p].sid,
                        write_map_file(pubs[p].read, io).logged,
                        write_map_file(pubs[p].read, io).result)
        /\ pubs' = [pubs EXCEPT ![p] = NoCall]
        /\ UNCHANGED <<containers, sessions, committed, now, sweep, entries,
                       decision_log, req, issued>>
        /\ UNCHANGED <<reloaders, reload_lock, observer_vars>>

NextPublish ==
    \/ PublishSelect
    \/ PublishCommit
    \/ RemoveDelete
    \/ SyncRead
    \/ SyncWrite

SpecPublish == Init /\ [][NextPublish]_vars

\* ------------------------------------------------------------------------
\* Concurrent callers of reload_nginx
\* ------------------------------------------------------------------------
Reloaders == 1..NumPublishers

\* What the GET of nginx_healthcheck_url does: answers 200, answers another
\* status, or raises (timeout after 5 s, connection refused, no route)
ProbeOutcomes == {"ok", "status", "unreachable"}

\* What _run_command does: return code 0, another return code, or raises
CommandOutcomes == {"zero", "nonzero", "raise"}

\* NginxWriter._nginx_health_check: status_code == 200, and True when the
\* request raised
nginx_health_check(outcome) == outcome \in {"ok", "unreachable"}

\* What the engine state keeps of a reload step
KeepEngine ==
    UNCHANGED <<containers, sessions, committed, now, sweep, api_vars_sync,
                pubs, observer_vars>>

\* reload_nginx is called and waits for _reload_lock
ReloadCall ==
    \E r \in Reloaders :
        /\ reloaders[r].pc = "idle"
        /\ reloaders[r].calls < MaxReloads
        /\ reloaders' = [reloaders EXCEPT ![r] =
                [NoReload EXCEPT !.pc = "lock", !.calls = reloaders[r].calls + 1]]
        /\ last' = Call("reload_call", r, 0, None)
        /\ UNCHANGED reload_lock
        /\ KeepEngine

\* async with self._reload_lock
ReloadAcquire ==
    \E r \in Reloaders :
        /\ reloaders[r].pc = "lock"
        /\ reload_lock = None
        /\ reload_lock' = r
        /\ reloaders' = [reloaders EXCEPT ![r].pc = "probe"]
        /\ last' = Call("reload_acquire", r, 0, None)
        /\ KeepEngine

\* reload_nginx: "Health check first"
ReloadProbe ==
    \E r \in Reloaders, outcome \in ProbeOutcomes :
        /\ reloaders[r].pc = "probe"
        /\ IF nginx_health_check(outcome)
           THEN /\ reloaders' = [reloaders EXCEPT ![r] =
                       [@ EXCEPT !.pc = "test", !.probe = outcome,
                                 !.ran = Append(@, "probe")]]
                /\ last' = Call("reload_probe", r, 0, 1)
                /\ UNCHANGED reload_lock
           ELSE /\ reloaders' = [reloaders EXCEPT ![r] =
                       [@ EXCEPT !.pc = "idle", !.probe = outcome,
                                 !.ran = Append(@, "probe"), !.result = 0]]
                /\ last' = Call("reload_nginx", r, 0, 0)
                /\ reload_lock' = None
        /\ KeepEngine

\* reload_nginx: "Test configuration", nginx -t
ReloadTest ==
    \E r \in Reloaders, outcome \in CommandOutcomes :
        /\ reloaders[r].pc = "test"
        /\ IF outcome = "zero"
           THEN /\ reloaders' = [reloaders EXCEPT ![r] =
                       [@ EXCEPT !.pc = "reload", !.test = outcome,
                                 !.ran = Append(@, "test")]]
                /\ last' = Call("reload_test", r, 0, 1)
                /\ UNCHANGED reload_lock
           ELSE /\ reloaders' = [reloaders EXCEPT ![r] =
                       [@ EXCEPT !.pc = "idle", !.test = outcome,
                                 !.ran = Append(@, "test"), !.result = 0]]
                /\ last' = Call("reload_nginx", r, 0, 0)
                /\ reload_lock' = None
        /\ KeepEngine

\* reload_nginx: "Reload nginx", settings.nginx_reload_command
ReloadCommand ==
    \E r \in Reloaders, outcome \in CommandOutcomes :
        /\ reloaders[r].pc = "reload"
        /\ reloaders' = [reloaders EXCEPT ![r] =
               [@ EXCEPT !.pc = "idle", !.reload = outcome,
                         !.ran = Append(@, "reload"),
                         !.result = IF outcome = "zero" THEN 1 ELSE 0]]
        /\ last' = Call("reload_nginx", r, 0, reloaders'[r].result)
        /\ reload_lock' = None
        /\ KeepEngine

NextReload ==
    \/ ReloadCall
    \/ ReloadAcquire
    \/ ReloadProbe
    \/ ReloadTest
    \/ ReloadCommand

SpecReload == Init /\ [][NextReload]_vars

\* ------------------------------------------------------------------------
\* Tasks that call the engine and reload_nginx, with both locks explicit.
\* A task makes one call at a time; a caller of assign_container or
\* release_session waits at `async with self._lock`.
\* ------------------------------------------------------------------------
Workers == 1..NumPublishers

\* The task can start a call
TaskFree(w) ==
    /\ workers[w].pc = "idle"
    /\ reloaders[w].pc = "idle"
    /\ workers[w].calls + reloaders[w].calls < MaxReloads

KeepStore ==
    UNCHANGED <<containers, sessions, committed, now, sweep, api_vars_sync,
                task_vars, reported, script, loop>>

\* assign_container is called, for the lowest level
PoolCallAssign ==
    \E w \in Workers, s \in SessionIds, t \in {l \in Levels : l - 1 \notin Levels} :
        /\ TaskFree(w)
        /\ workers' = [workers EXCEPT ![w] =
               [NoWork EXCEPT !.pc = "wait", !.op = "assign", !.sid = s,
                              !.level = t, !.calls = workers[w].calls + 1]]
        /\ last' = Call("pool_call", w, 0, None)
        /\ UNCHANGED pool_lock
        /\ KeepStore

\* release_session is called
PoolCallRelease ==
    \E w \in Workers, s \in SessionIds :
        /\ TaskFree(w)
        /\ workers' = [workers EXCEPT ![w] =
               [NoWork EXCEPT !.pc = "wait", !.op = "release", !.sid = s,
                              !.calls = workers[w].calls + 1]]
        /\ last' = Call("pool_call", w, 0, None)
        /\ UNCHANGED pool_lock
        /\ KeepStore

\* cleanup_expired_sessions is called: the select, without the lock
PoolCallCleanup ==
    \E w \in Workers :
        /\ TaskFree(w)
        /\ workers' = [workers EXCEPT ![w] =
               [NoWork EXCEPT !.pc = "sweep", !.op = "cleanup",
                              !.todo = expired_sessions,
                              !.calls = workers[w].calls + 1]]
        /\ last' = Call("pool_scan", w, 0, None)
        /\ UNCHANGED pool_lock
        /\ KeepStore

\* cleanup_expired_sessions: the next release_session call of the loop, or
\* the return
PoolSweepNext ==
    \E w \in Workers :
        /\ workers[w].pc = "sweep"
        /\ IF workers[w].todo = {}
           THEN workers' = [workers EXCEPT ![w] =
                    [NoWork EXCEPT !.calls = workers[w].calls]]
           ELSE \E s \in workers[w].todo :
                    workers' = [workers EXCEPT ![w] =
                        [@ EXCEPT !.pc = "wait", !.sid = s,
                                  !.todo = workers[w].todo \ {s}]]
        /\ last' = Call("pool_sweep", w, 0, None)
        /\ UNCHANGED pool_lock
        /\ KeepStore

\* async with self._lock: enter
PoolAcquire ==
    \E w \in Workers :
        /\ workers[w].pc = "wait"
        /\ pool_lock = None
        /\ pool_lock' = w
        /\ workers' = [workers EXCEPT ![w].pc = "body"]
        /\ last' = Call("pool_acquire", w, 0, None)
        /\ KeepStore

\* What the task does next when the body under the lock ends
AfterBody(work, raised) ==
    IF work.op = "cleanup" /\ ~raised
    THEN [work EXCEPT !.pc = "sweep", !.sid = None]
    ELSE [NoWork EXCEPT !.calls = work.calls]

PoolBodyKeepLockOnRaise ==
    \E w \in Workers, raised \in BOOLEAN :
        LET work == workers[w] IN
        /\ work.pc = "body"
        /\ (/\ work.op = "assign"
            /\ sessions[work.sid] # NoSession
            /\ sessions[work.sid].escalation_count >= MaxEscalations) => raised
        /\ IF raised
           THEN /\ last' = Call("pool_raise", w, 0, None)
                /\ UNCHANGED <<containers, sessions, committed, pool_lock>>
           ELSE /\ IF work.op = "assign"
                   THEN assign_container(work.sid, work.level)
                   ELSE release_session(work.sid)
                /\ pool_lock' = None
        /\ workers' = [workers EXCEPT ![w] = AfterBody(work, raised)]
        /\ UNCHANGED <<now, sweep, api_vars_sync, task_vars, reported, script,
                       loop>>

\* The body of assign_container or release_session under the lock, and
\* the exit of `async with`, which also runs when a database call raises
PoolBody ==
    \E w \in Workers, raised \in BOOLEAN :
        LET work == workers[w] IN
        /\ work.pc = "body"
        /\ (/\ work.op = "assign"
            /\ sessions[work.sid] # NoSession
            /\ sessions[work.sid].escalation_count >= MaxEscalations) => raised
        /\ IF raised
           THEN /\ last' = Call("pool_raise", w, 0, None)
                /\ UNCHANGED <<containers, sessions, committed>>
           ELSE IF work.op = "assign"
                THEN assign_container(work.sid, work.level)
                ELSE release_session(work.sid)
        /\ pool_lock' = None
        /\ workers' = [workers EXCEPT ![w] = AfterBody(work, raised)]
        /\ UNCHANGED <<now, sweep, api_vars_sync, task_vars, reported, script,
                       loop>>

\* reload_nginx is called by a task that is in no other call
TaskReloadCall ==
    /\ ReloadCall
    /\ \A r \in Reloaders : reloaders'[r] # reloaders[r] => TaskFree(r)

NextLocks ==
    \/ PoolCallAssign
    \/ PoolCallRelease
    \/ PoolCallCleanup
    \/ PoolSweepNext
    \/ PoolAcquire
    \/ PoolBody
    \/ TaskReloadCall
    \/ ReloadAcquire
    \/ ReloadProbe
    \/ ReloadTest
    \/ ReloadCommand
    \/ Tick

SpecLocks == Init /\ [][NextLocks]_vars

\* ------------------------------------------------------------------------
\* session_cleanup_loop, with the errors and the cancellation it handles
\* ------------------------------------------------------------------------
KeepOutsideLoop ==
    UNCHANGED <<now, sweep, entries, decision_log, req, issued, task_vars,
                reported, script, pool_lock, workers>>

\* asyncio.sleep(session_cleanup_interval) returns
LoopWake ==
    /\ loop.pc = "sleep"
    /\ loop' = [pc |-> "scan", todo |-> {}, count |-> 0]
    /\ last' = Call("loop_wake", None, 0, None)
    /\ UNCHANGED <<containers, sessions, committed, mapfile, tmpfile>>
    /\ KeepOutsideLoop

\* cleanup_expired_sessions: the select; a database error ends the cycle
\* in `except Exception`
LoopScan ==
    /\ loop.pc = "scan"
    /\ \E raised \in BOOLEAN :
         IF raised
         THEN /\ loop' = [loop EXCEPT !.pc = "sleep"]
              /\ last' = Call("loop_error", None, 0, loop.count)
         ELSE /\ loop' = [loop EXCEPT !.pc = "release",
                                      !.todo = expired_sessions]
              /\ last' = Call("loop_scan", None, 0, None)
    /\ UNCHANGED <<containers, sessions, committed, mapfile, tmpfile>>
    /\ KeepOutsideLoop

\* cleanup_expired_sessions: release_session for the next scanned row and
\* count += 1; a database error ends the cycle in `except Exception`
LoopRelease ==
    /\ loop.pc = "release"
    /\ \E s \in loop.todo, raised \in BOOLEAN :
         IF raised
         THEN /\ loop' = [loop EXCEPT !.pc = "sleep"]
              /\ last' = Call("loop_error", None, 0, loop.count)
              /\ UNCHANGED <<containers, sessions, committed>>
         ELSE /\ release_session(s)
              /\ loop' = [loop EXCEPT !.todo = loop.todo \ {s},
                                      !.count = loop.count + 1]
    /\ UNCHANGED <<mapfile, tmpfile>>
    /\ KeepOutsideLoop

\* session_cleanup_loop: write_map_file if count > 0, then the handle is
\* committed and the loop sleeps again
LoopEnd ==
    /\ loop.pc = "release"
    /\ loop.todo = {}
    /\ IF loop.count > 0
       THEN \E io \in IoOutcomes :
               /\ mapfile' = write_map_file(entries, io).mapfile
               /\ tmpfile' = write_map_file(entries, io).tmpfile
               /\ last' = Call("loop_write", None,
                               write_map_file(entries, io).logged, loop.count)
       ELSE /\ UNCHANGED <<mapfile, tmpfile>>
            /\ last' = Call("loop_skip", None, 0, loop.count)
    /\ loop' = [loop EXCEPT !.pc = "sleep"]
    /\ committed' = Commit(containers, sessions)
    /\ UNCHANGED <<containers, sessions>>
    /\ KeepOutsideLoop

\* lifespan: cleanup_task.cancel(); CancelledError is raised at the await
\* the loop is suspended at, and the loop breaks
LoopCancel ==
    /\ loop.pc # "stopped"
    /\ loop' = [loop EXCEPT !.pc = "stopped"]
    /\ last' = Call("loop_cancel", None, 0, loop.count)
    /\ UNCHANGED <<containers, sessions, committed, mapfile, tmpfile>>
    /\ KeepOutsideLoop

\* Requests are served until shutdown
LoopAssign == loop.pc # "stopped" /\ AssignContainer

NextLoop ==
    \/ LoopWake
    \/ LoopScan
    \/ LoopRelease
    \/ LoopEnd
    \/ LoopCancel
    \/ LoopAssign
    \/ Tick

SpecLoop == Init /\ [][NextLoop]_vars

\* ------------------------------------------------------------------------
\* Properties of the pool engine
\* ------------------------------------------------------------------------
Active(s) == sessions[s].state = "active"

Holds(s) == sessions[s].container_id # None

\* The containers whose assigned_session_id is s
OwnedBy(s) == {c \in Containers : containers[c].assigned_session_id = s}

\* Idle healthy containers of level >= t in the current state
Eligible(t) ==
    {c \in Containers : /\ Level(c) >= t
                        /\ containers[c].state = "idle"
                        /\ containers[c].healthy}

IsAssignCall(call, s, t) ==
    /\ call.op \in {"assign_new", "assign_existing", "assign_exhausted"}
    /\ call.sid = s
    /\ call.target = t

\* C1: no two distinct Active sessions have the same non-null container_id.
C1_NoSharedContainer ==
    \A s1, s2 \in SessionIds :
        (s1 # s2 /\ Active(s1) /\ Active(s2) /\ Holds(s1) /\ Holds(s2))
            => sessions[s1].container_id # sessions[s2].container_id

\* C3: a session's container_id is non-null only if the session is Active
\* and the container it names is Assigned to that session.
C3_ContainerIdOnlyWhileActive ==
    \A s \in SessionIds :
        Holds(s) =>
            /\ Active(s)
            /\ containers[sessions[s].container_id].state = "assigned"
            /\ containers[sessions[s].container_id].assigned_session_id = s

\* C4: a container's assigned_session_id is non-null if and only if its
\* state is Assigned.
C4_AssignedIffOwner ==
    \A c \in Containers :
        (containers[c].assigned_session_id # None)
            <=> (containers[c].state = "assigned")

C4_Witness ==
    /\ last.op = "release"
    /\ last.result = 1
    /\ \E c \in Containers : containers[c].state = "assigned"
    /\ \E c \in Containers : containers[c].state = "idle"

\* C5: a call of AssignContainer(s, t) that does not return a container the
\* session already has allocates a container that was Idle and healthy, of
\* the smallest level >= t that had an Idle healthy container, never of a
\* level below t, and fails exactly when no Idle healthy container of a
\* level >= t existed.
C5_TierSelection ==
    [][\A s \in SessionIds, t \in Levels :
          /\ (last'.op = "assign_new" /\ IsAssignCall(last', s, t)) =>
                /\ last'.result \in Eligible(t)
                /\ \A c \in Eligible(t) : Level(last'.result) <= Level(c)
          /\ (last'.op = "assign_exhausted" /\ IsAssignCall(last', s, t)) =>
                Eligible(t) = {}
          /\ (last'.op = "assign_new" /\ IsAssignCall(last', s, t)) =>
                Eligible(t) # {}
      ]_vars

\* Fallback happened: the call was served from a level above its target
\* while a container was unhealthy
C5_Witness ==
    /\ last.op = "assign_new"
    /\ Level(last.result) > last.target
    /\ \E c \in Containers : ~containers[c].healthy

\* C6: when AssignContainer returns PoolExhausted no session or container
\* field differs from before the call and no session row is created.
C6_ExhaustionMutatesNothing ==
    [][last'.op = "assign_exhausted" =>
          /\ containers' = containers
          /\ sessions' = sessions]_vars

\* C7: a call for a session that holds a healthy container of level >=
\* target returns that container and changes no session or container field;
\* a second call with the same session and target right after a first one
\* returns the same result and leaves escalation_count alone.
C7_Idempotent ==
    [][\A s \in SessionIds, t \in Levels :
          IsAssignCall(last', s, t) =>
            /\ ( /\ Holds(s)
                 /\ containers[sessions[s].container_id].healthy
                 /\ Level(sessions[s].container_id) >= t )
               => /\ last'.op = "assign_existing"
                  /\ last'.result = sessions[s].container_id
                  /\ containers' = containers
                  /\ sessions' = sessions
            /\ IsAssignCall(last, s, t)
               => /\ last'.result = last.result
                  /\ sessions'[s].escalation_count = sessions[s].escalation_count
                  /\ last.result # None => last'.op = "assign_existing"
      ]_vars

\* The second of two calls in a row has returned the held container
C7_Witness ==
    /\ last.op = "assign_existing"
    /\ last.result = sessions[last.sid].container_id
    /\ sessions[last.sid].escalation_count = 1
    /\ last.target = sessions[last.sid].current_level

\* C8: a new allocation turns the chosen container from Idle to Assigned to
\* the session and sets the session's container_id, current_level = the
\* container's level, expires_at = now + TTL, escalation_count + 1.
C8_NewAllocation ==
    [][\A s \in SessionIds :
          (last'.op = "assign_new" /\ last'.sid = s) =>
             LET c == last'.result IN
             /\ containers[c].state = "idle"
             /\ containers'[c].state = "assigned"
             /\ containers'[c].assigned_session_id = s
             /\ sessions'[s].container_id = c
             /\ sessions'[s].current_level = Level(c)
             /\ sessions'[s].expires_at = now + SessionTTL
             /\ sessions'[s].escalation_count = sessions[s].escalation_count + 1
      ]_vars

\* Fallback: target 1 served by a level-2 container, current_level 2
C8_Witness ==
    /\ last.op = "assign_new"
    /\ last.target = 1
    /\ Level(last.result) = 2
    /\ sessions[last.sid].current_level = 2
    /\ sessions[last.sid].escalation_count = 2

\* C9: a session's current_level never decreases.
C9_TierMonotonic ==
    [][\A s \in SessionIds :
          (sessions[s] # NoSession /\ sessions'[s] # NoSession)
             => sessions'[s].current_level >= sessions[s].current_level]_vars

C11_AssignmentAtomic ==
    \A c \in Containers, s \in SessionIds :
        (containers[c].state = "assigned" /\ containers[c].assigned_session_id = s)
            <=> (sessions[s].container_id = c)

\* The sweep acts on session s in this step: one iteration of its loop
SweepActsOn(s) ==
    /\ sweep.pc = "release"
    /\ sweep'.pc = "release"
    /\ s \in sweep.todo
    /\ s \notin sweep'.todo

\* C12: under every interleaving of the sweep with AssignContainer, a
\* session whose expires_at is not in the past when the sweep acts on it
\* (it was renewed after the scan) is not released and keeps its container.
C12_SweepSparesRenewed ==
    [][\A s \in SessionIds :
          (SweepActsOn(s) /\ sessions[s].expires_at >= now)
              => (sessions'[s] = sessions[s] /\ containers' = containers)]_vars

\* C13: every session the sweep processes ends in state Expired, and a
\* session released explicitly ends in state Released.
C13_SweepMarksExpired ==
    [][\A s \in SessionIds :
          /\ SweepActsOn(s) => sessions'[s].state = "expired"
          /\ (last'.op = "release" /\ last'.sid = s /\ last'.result = 1
                 /\ sweep' = sweep)
                => sessions'[s].state = "released"]_vars

\* s is Active with expires_at in the past
Stale(s) ==
    /\ Active(s)
    /\ sessions[s].expires_at # NoTime
    /\ sessions[s].expires_at < now

\* C14: a sweep run with no concurrent operation processes exactly the
\* Active sessions with expires_at < now: the container each held becomes
\* Idle with assigned_session_id cleared, its container_id is cleared, the
\* sweep counts one per session and returns the count, and every Active
\* session whose expires_at is not in the past, and its container, is left
\* unchanged.
C14_SweepAlone ==
    [][/\ (sweep.pc = "idle" /\ sweep'.pc = "release")
            => (sweep'.todo = {s \in SessionIds : Stale(s)} /\ sweep'.count = 0)
       /\ \A s \in SessionIds :
            SweepActsOn(s) =>
               /\ Stale(s)
               /\ sessions'[s].container_id = None
               /\ Holds(s) =>
                    /\ containers'[sessions[s].container_id].state = "idle"
                    /\ containers'[sessions[s].container_id].assigned_session_id = None
               /\ sweep'.count = sweep.count + 1
               /\ \A u \in SessionIds :
                    (Active(u) /\ ~Stale(u)) =>
                       /\ sessions'[u] = sessions[u]
                       /\ Holds(u) => containers'[sessions[u].container_id]
                                         = containers[sessions[u].container_id]
       /\ (sweep.pc = "release" /\ sweep'.pc = "idle")
            => (sweep.todo = {} /\ last'.result = sweep.count)
      ]_vars

\* C15: if the sweep keeps running, a container Assigned to a session whose
\* expires_at has passed is eventually Idle again, unless a further
\* AssignContainer is issued for that session.
C15_StaleReclaimed ==
    \A s \in SessionIds, c \in Containers :
        [](( /\ containers[c].state = "assigned"
             /\ containers[c].assigned_session_id = s
             /\ sessions[s].expires_at # NoTime
             /\ sessions[s].expires_at < now )
           => <>( \/ containers[c].state = "idle"
                  \/ IsAssignCall(last, s, last.target) ))

C17_ReleaseIdempotent ==
    [][\A s \in SessionIds :
          (last'.op = "release" /\ last'.sid = s
             /\ sessions[s].state = "released") =>
             /\ last'.result = 1
             /\ sessions'[s].state = sessions[s].state
             /\ sessions'[s].container_id = sessions[s].container_id
             /\ \A c \in Containers :
                   /\ containers'[c].state = containers[c].state
                   /\ containers'[c].assigned_session_id
                          = containers[c].assigned_session_id]_vars

\* ------------------------------------------------------------------------
\* Properties of the API handlers with the routing synchronizer
\* ------------------------------------------------------------------------
NoOperationInProgress == req.pc = "idle" /\ sweep.pc = "idle"

\* C2: whenever no operation is in progress, every routing entry belongs to
\* an Active session, and its upstream is the address of the container
\* currently Assigned to that session.
C2_RoutingMatchesAssignment ==
    NoOperationInProgress =>
        \A e \in entries :
            /\ Active(e.session_id)
            /\ Holds(e.session_id)
            /\ containers[sessions[e.session_id].container_id].assigned_session_id
                   = e.session_id
            /\ e.upstream = address(sessions[e.session_id].container_id)

\* C18: Released and Expired are terminal: once a session's state is
\* Released or Expired, no AssignContainer, ReleaseSession, sweep or score
\* update changes its state again.
C18_TerminalStates ==
    [][\A s \in SessionIds :
          sessions[s].state \in {"released", "expired"}
              => sessions'[s].state = sessions[s].state]_vars

\* A Released session went through AssignContainer and a score update
C18_Witness ==
    /\ last.op = "score"
    /\ sessions[last.sid].state = "released"
    /\ Holds(last.sid)
    /\ sessions[last.sid].skill_score = 10

\* C19: if the render+install step fails inside PublishAssignment, the call
\* returns failure and the RoutingEntry table has the same content as
\* before the call.
C19_PublishRollsBack ==
    [][(last'.op = "publish" /\ last'.result = 0) => entries' = entries]_vars

\* write_map_file ran in this step
WriteAttempted ==
    /\ last'.op \in {"publish", "unmap", "cleanup"}
    /\ last'.target \in {Written, ValidationFailed, Failed}

\* C20: the installed file changes only by the rename of a temporary file
\* that passed validation; when validation fails the temporary file is
\* deleted, failure is reported and the installed file is the same as
\* before; so an installed file is always a complete, validated render.
C20_InstallByRename ==
    /\ [](mapfile.exists => validate_config(mapfile))
    /\ [][/\ mapfile' # mapfile =>
              /\ WriteAttempted
              /\ last'.target = Written
              /\ mapfile' = render(entries')
              /\ validate_config(mapfile')
              /\ tmpfile' = NoFile
          /\ (WriteAttempted /\ last'.target = ValidationFailed) =>
              /\ ~validate_config(render(entries'))
              /\ tmpfile' = NoFile
              /\ mapfile' = mapfile
              /\ last'.op \in {"publish", "unmap"} => last'.result = 0
         ]_vars

\* A render failed validation while a file was installed
C20_Witness ==
    /\ last.op \in {"publish", "unmap"}
    /\ last.target = ValidationFailed
    /\ mapfile.exists
    /\ mapfile # render(entries)
    /\ tmpfile = NoFile

\* The rows of the installed file whose key is the routing key k
RowsOf(file, k) == {r \in file.rows : r[1] = k}

\* C21: after a successful PublishAssignment(session, key, address) the
\* installed file maps exactly that key to exactly that address; after a
\* successful RemoveAssignment(session) the installed file has no row with
\* a routing key the session had.
C21_RoundTrip ==
    [][/\ (last'.op = "publish" /\ last'.result = 1) =>
              /\ mapfile'.exists
              /\ RowsOf(mapfile', generate_session_cookie(req.sid, issued))
                    = {<<generate_session_cookie(req.sid, issued),
                         address(req.container)>>}
       /\ (last'.op = "unmap" /\ last'.result = 1) =>
              /\ mapfile'.exists
              /\ \A e \in entries :
                    e.session_id = req.sid
                        => RowsOf(mapfile', e.session_cookie) = {}
      ]_vars

\* A session's assignment was published a second time, with a new key
C21_Witness ==
    /\ last.op = "publish"
    /\ last.result = 1
    /\ \E i \in 1..Len(decision_log) :
          decision_log[i].session_id = last.sid
    /\ \E e \in entries :
          e.session_id = last.sid /\ <<e.session_cookie, e.upstream>> \in mapfile.rows

\* C22: in every reachable state there is at most one RoutingEntry per
\* session id, also when calls of PublishAssignment and RemoveAssignment
\* run concurrently.
C22_OneEntryPerSession ==
    \A e1, e2 \in entries : e1.session_id = e2.session_id => e1 = e2

\* The reload_nginx call of r has returned
Returned(r) == reloaders[r].pc = "idle" /\ reloaders[r].calls > 0

\* C23: ReloadProxy runs probe, self-test and reload in that order; a
\* failed probe ends the call with failure before the self-test, a failed
\* self-test ends it with failure before the reload, and it returns
\* success only if the reload command succeeded.
C23_ReloadOrder ==
    \A r \in Reloaders :
        LET c == reloaders[r] IN
        /\ c.ran \in {<<>>, <<"probe">>, <<"probe", "test">>,
                      <<"probe", "test", "reload">>}
        /\ c.probe \in {"status", "unreachable"} =>
              (Returned(r) /\ c.result = 0 /\ c.ran = <<"probe">>)
        /\ c.test \in {"nonzero", "raise"} =>
              (Returned(r) /\ c.result = 0 /\ c.ran = <<"probe", "test">>)
        /\ Len(c.ran) = 3 => (c.probe = "ok" /\ c.test = "zero")
        /\ c.result = 1 => (Returned(r) /\ c.reload = "zero")

\* C24: a proxy call that times out or cannot reach the proxy counts as
\* that check's failure: when the probe gets no response, ReloadProxy
\* returns failure and issues no reload command.
C24_UnreachableIsFailure ==
    \A r \in Reloaders :
        LET c == reloaders[r] IN
        /\ c.probe = "unreachable" =>
              (Returned(r) /\ c.result = 0 /\ c.reload = "none")
        /\ c.test = "raise" =>
              (Returned(r) /\ c.result = 0 /\ c.reload = "none")
        /\ c.reload = "raise" => (Returned(r) /\ c.result = 0)

RecordedLevel(s) ==
    IF sessions[s] = NoSession THEN 1 ELSE sessions[s].current_level

\* After the decision is read: AssignContainer with the request's tier; on
\* success the score, PublishAssignment, ReloadProxy, LogDecision in that
\* order; on failure the request ends and nothing is published or logged
HandlerOrder ==
    /\ req' # req =>
        /\ req.pc = "assign" =>
              /\ IsAssignCall(last', req.sid, req.target)
              /\ IF last'.op = "assign_exhausted"
                 THEN /\ req' = NoRequest
                      /\ UNCHANGED <<entries, mapfile, decision_log>>
                 ELSE /\ req'.pc = "score"
                      /\ req'.container = last'.result
                      /\ req'.container # None
        /\ req'.pc = "score" => req.pc = "assign"
        /\ req'.pc = "publish" => req.pc = "score"
        /\ req.pc = "publish" =>
              /\ last'.op = "publish"
              /\ req'.pc = "reload"
              /\ \E e \in entries' :
                    /\ e.session_id = req.sid
                    /\ e.upstream = address(req.container)
        /\ req.pc = "reload" =>
              /\ last'.op = "reload"
              /\ req'.pc = "log"
              /\ UNCHANGED decision_log
        /\ req.pc = "log" =>
              /\ last'.op = "log"
              /\ req' = NoRequest
              /\ Len(decision_log') = Len(decision_log) + 1
              /\ decision_log'[Len(decision_log')].session_id = req.sid
              /\ decision_log'[Len(decision_log')].to_container = req.container
    /\ last'.op = "publish" => req.pc = "publish"
    /\ last'.op = "reload" => req.pc \in {"reload", "rel_reload"}
    /\ last'.op = "log" => req.pc = "log"
    /\ decision_log' # decision_log => req.pc = "log"

\* C26 (as stated): every escalate decision invokes AssignContainer with
\* the action's tier; only if that succeeds does the handler run
\* PublishAssignment, then ReloadProxy, then LogDecision, in that order; if
\* AssignContainer fails nothing is published, reloaded or logged.
C26_EscalateSequence ==
    [][/\ (last'.op = "escalate" /\ last'.target \in {2, 3}) =>
             /\ req'.pc = "assign"
             /\ req'.sid = last'.sid
             /\ req'.target = last'.target
       /\ HandlerOrder]_vars

\* C26 (amended): every escalate decision whose tier is above the tier
\* recorded for the session (1 for an unknown session) invokes
\* AssignContainer with the action's tier; only if that succeeds does the
\* handler run PublishAssignment, then ReloadProxy, then LogDecision, in
\* that order; if AssignContainer fails nothing is published, reloaded or
\* logged. A decision whose tier is not above the recorded tier invokes
\* none of them.
C26_EscalateAboveRecorded ==
    [][/\ (last'.op = "escalate" /\ last'.target \in {2, 3}) =>
             IF RecordedLevel(last'.sid) < last'.target
             THEN /\ req'.pc = "assign"
                  /\ req'.sid = last'.sid
                  /\ req'.target = last'.target
             ELSE /\ req' = NoRequest
                  /\ UNCHANGED <<containers, sessions, entries, mapfile,
                                 decision_log>>
       /\ HandlerOrder]_vars

\* An escalate request went through to its log entry: the entry names the
\* container that was assigned, and the table routes the session to it
C26_Witness ==
    /\ last.op = "log"
    /\ Len(decision_log) > 0
    /\ LET d == decision_log[Len(decision_log)] IN
          /\ d.to_container # None
          /\ containers[d.to_container].assigned_session_id = d.session_id
          /\ \E e \in entries :
                /\ e.session_id = d.session_id
                /\ e.upstream = address(d.to_container)

\* C27: every Routing Synchronizer step reports any failure of the store,
\* the file system, validation, the probe or a proxy command to its caller
\* as an explicit failure result, never as an exception, and does not
\* retry the failed step. For ReloadProxy: a call that returned has the
\* result failure whenever its probe, its self-test or its reload command
\* failed, and ran each of them at most once.
C27_FailureReported ==
    \A r \in Reloaders :
        LET c == reloaders[r] IN
        /\ Returned(r) =>
              /\ c.result \in {0, 1}
              /\ (\/ c.probe \in {"status", "unreachable"}
                  \/ c.test \in {"nonzero", "raise"}
                  \/ c.reload \in {"nonzero", "raise"}) => c.result = 0
        /\ \A i, j \in 1..Len(c.ran) : c.ran[i] = c.ran[j] => i = j

\* C28: from 2 tier-1, 1 tier-2 and 0 tier-3 containers, all Idle and
\* healthy, Assign(A,2), Assign(B,2), Assign(B,1), Release(A) yield:
\* success with the tier-2 container Assigned to A; PoolExhausted; success
\* with a tier-1 container for B; then the tier-2 container Idle again and
\* GetPoolStatus for tier 2 equal to total 1, idle 1, assigned 0.
C28_Scenario ==
    [][script'.done # script.done =>
        LET a == script.a
            b == script.b
            tier2 == CHOOSE c \in ScenarioPool : Level(c) = 2
        IN
        /\ script'.done = 1 =>
              /\ last'.op = "assign_new"
              /\ last'.result = tier2
              /\ containers'[tier2].state = "assigned"
              /\ containers'[tier2].assigned_session_id = a
              /\ sessions'[a].container_id = tier2
        /\ script'.done = 2 =>
              /\ last'.op = "assign_exhausted"
              /\ last'.result = None
              /\ \A c \in ScenarioPool :
                    containers'[c].assigned_session_id # b
        /\ script'.done = 3 =>
              /\ last'.op = "assign_new"
              /\ last'.result \in ScenarioPool
              /\ Level(last'.result) = 1
              /\ containers'[last'.result].state = "assigned"
              /\ containers'[last'.result].assigned_session_id = b
              /\ containers'[tier2].assigned_session_id = a
        /\ script'.done = 4 =>
              /\ last'.op = "release"
              /\ last'.result = 1
              /\ containers'[tier2].state = "idle"
              /\ containers'[tier2].assigned_session_id = None
        /\ script'.done = 5 =>
              /\ reported'[2].total = 1
              /\ reported'[2].idle = 1
              /\ reported'[2].assigned = 0
    ]_vars

\* The scenario ran to its end: the status was reported after the release
C28_Witness ==
    /\ script.done = ScenarioLength
    /\ last.op = "pool_status"
    /\ reported[1].assigned = 1
    /\ sessions[script.a].state = "released"
    /\ sessions[script.b].state = "active"

\* C29: the decision log is append-only: LogDecision appends exactly one
\* entry whether or not the session exists, no operation modifies or
\* removes an existing entry, and ReleaseSession and CleanupExpired append
\* no entry.
C29_AppendOnly ==
    [][/\ last'.op = "log" =>
             /\ Len(decision_log') = Len(decision_log) + 1
             /\ decision_log'[Len(decision_log')].session_id = last'.sid
       /\ decision_log' # decision_log => last'.op = "log"
       /\ Len(decision_log') >= Len(decision_log)
       /\ \A i \in 1..Len(decision_log) : decision_log'[i] = decision_log[i]
       /\ last'.op \in {"release", "cleanup_scan", "cleanup"} =>
             UNCHANGED decision_log
      ]_vars

\* A second entry was appended, for a session that has no row
C29_Witness ==
    /\ last.op = "log"
    /\ Len(decision_log) = 2
    /\ sessions[last.sid] = NoSession
    /\ \E s \in SessionIds : sessions[s].state = "released"

\* C30: an escalation decision whose skill score is outside 0..10 is
\* rejected as a validation error before any engine operation runs: no
\* session, container, routing entry or log entry changes; scores 0 and 10
\* are accepted (only a score outside 0..10 is rejected, and no score
\* outside 0..10 reaches the handler, a session or the log).
C30_ScoreValidated ==
    [][/\ last'.op = "escalate_rejected" =>
             /\ last'.result \notin 0..10
             /\ UNCHANGED <<containers, sessions, committed, entries, mapfile,
                            tmpfile, decision_log, req, issued>>
       /\ req'.score \in 0..10
       /\ \A s \in SessionIds :
             sessions'[s] # NoSession => sessions'[s].skill_score \in 0..10
       /\ \A i \in 1..Len(decision_log') :
             decision_log'[i].skill_score_after \in 0..10
      ]_vars

\* A decision with score 11 was rejected after one with score 10 had been
\* accepted and had gone through to the session and the log
C30_Witness ==
    /\ last.op = "escalate_rejected"
    /\ last.result = 11
    /\ \E s \in SessionIds :
          /\ sessions[s] # NoSession
          /\ sessions[s].skill_score = 10
    /\ \E i \in 1..Len(decision_log) : decision_log[i].skill_score_after = 10

\* C31: pool initialization creates exactly one container per unit of
\* configured count for each tier, Idle and healthy, and the set of
\* containers is fixed afterwards: no operation, including running
\* initialization again (restart or the reinitialize endpoint), deletes a
\* container, adds a duplicate, changes a container's tier, or resets an
\* existing container's state or assignment.
C31_PoolFixed ==
    /\ [](Initialized =>
            /\ DOMAIN containers = Containers
            /\ \A l \in Levels :
                  Cardinality({c \in DOMAIN containers : Level(c) = l})
                      = get_container_count(l))
    /\ [][/\ DOMAIN containers \subseteq DOMAIN containers'
          /\ last'.op = "initialize_pools" =>
                /\ \A c \in DOMAIN containers : containers'[c] = containers[c]
                /\ \A c \in DOMAIN containers' \ DOMAIN containers :
                      containers'[c] = NewContainer
                /\ UNCHANGED sessions
          /\ last'.op = "restart" =>
                /\ \A c \in DOMAIN committed.containers :
                      containers'[c] = committed.containers[c]
                /\ \A c \in DOMAIN containers' \ DOMAIN committed.containers :
                      containers'[c] = NewContainer
                /\ sessions' = committed.sessions
         ]_vars

\* initialize_pools ran again while a container was assigned and another
\* was unhealthy, and both kept their rows
C31_Witness ==
    /\ last.op = "initialize_pools"
    /\ \E c \in DOMAIN containers :
          /\ containers[c].state = "assigned"
          /\ containers[c].assigned_session_id # None
    /\ \E c \in DOMAIN containers : ~containers[c].healthy

\* C32: AssignContainer, ReleaseSession and CleanupExpired execute with
\* mutual exclusion: at most one of them is inside its read-modify-write
\* sequence, and for CleanupExpired the sequence runs from the scan for
\* expired sessions to its last release. While a sweep is between its scan
\* and its return, no assign call and no release call of another caller
\* takes a step.
C32_MutualExclusion ==
    [][sweep.pc # "idle" =>
         /\ last'.op \notin {"assign_new", "assign_existing", "assign_exhausted"}
         /\ last'.op = "release" => sweep' # sweep
      ]_vars

\* C33: the Routing Synchronizer's sequences are serialized by its own
\* lock: two concurrent callers are never both inside render+install (from
\* the read of the entries to the rename), so when all concurrent publish
\* and remove calls have returned and the last one reported success, the
\* installed file is the render of the RoutingEntry table.
C33_InstallSerialized ==
    /\ Cardinality({p \in Publishers :
                       pubs[p].pc = "install"}) <= 1
    /\ ((\A p \in Publishers : pubs[p].pc = "idle")
         /\ last.op \in {"publish", "unmap"}
         /\ last.result = 1)
           => mapfile = render(entries)

\* Callers of reload_nginx are never both between the probe and the return
ReloadSerialized ==
    /\ Cardinality({r \in Reloaders :
                       reloaders[r].pc \in {"probe", "test", "reload"}}) <= 1
    /\ \A r \in Reloaders :
          reloaders[r].pc \in {"probe", "test", "reload"} <=> reload_lock = r

\* The task is waiting for a lock
Waiting(t) == workers[t].pc = "wait" \/ reloaders[t].pc = "lock"

\* A step of a task that is in a call
TaskStep ==
    \/ PoolSweepNext
    \/ PoolAcquire
    \/ PoolBody
    \/ ReloadAcquire
    \/ ReloadProbe
    \/ ReloadTest
    \/ ReloadCommand

\* The task is in a call
InCall(t) == workers[t].pc # "idle" \/ reloaders[t].pc # "idle"

\* C34: the pool lock and the synchronizer lock are never nested and never
\* re-entered: no task waits for either lock while holding one of them
\* (the sweep calls release_session without holding the pool lock), no
\* interleaving of assign, release, cleanup and reload calls deadlocks (the
\* holder of a lock is always at a step it can take, and a lock that is
\* waited for while free can be taken), and each lock is free again when
\* its holder returns, also when the call failed.
C34_LocksNotNested ==
    \A t \in Workers :
        /\ (pool_lock = t \/ reload_lock = t) => ~Waiting(t)
        /\ ~(pool_lock = t /\ reload_lock = t)
        /\ pool_lock = t <=> workers[t].pc = "body"
        /\ reload_lock = t <=> reloaders[t].pc \in {"probe", "test", "reload"}
        /\ workers[t].pc = "sweep" => pool_lock # t
        /\ ~InCall(t) => (pool_lock # t /\ reload_lock # t)
        /\ InCall(t) => ENABLED TaskStep

\* A sweep waits in release_session for the pool lock that another task
\* holds, after a session was released
C34_Witness ==
    \E t, u \in Workers :
        /\ t # u
        /\ workers[t].pc = "wait"
        /\ workers[t].op = "cleanup"
        /\ pool_lock = u
        /\ \E s \in SessionIds : sessions[s].state = "released"

\* C35: the background cleanup loop runs one cleanup cycle per tick, asks
\* the synchronizer to re-render the routing file exactly when the cycle
\* expired at least one session, keeps ticking after a tick whose cycle
\* failed with an error, and stops only when cancelled at shutdown.
C35_CleanupLoop ==
    /\ [](loop.pc = "sleep" => ENABLED LoopWake)
    /\ [][/\ (loop'.pc = "scan" /\ loop.pc # "scan") => loop.pc = "sleep"
          /\ (loop'.pc = "sleep" /\ loop.pc # "sleep") =>
                (last'.op = "loop_write" <=> loop.count > 0)
          /\ last'.op = "loop_write" =>
                (loop.pc = "release" /\ loop'.pc = "sleep")
          /\ last'.op = "loop_error" => loop'.pc = "sleep"
          /\ (loop'.pc = "stopped" /\ loop.pc # "stopped") =>
                last'.op = "loop_cancel"
          /\ loop.pc = "stopped" => loop'.pc = "stopped"
         ]_vars

\* C36: a health change on an Assigned container changes only its healthy
\* flag: its state stays Assigned, its assigned_session_id is unchanged,
\* and the owning session's container_id and state are unchanged. (A
\* health update changes the healthy flag of one container and nothing
\* else of any container or session.)
C36_HealthKeepsAssignment ==
    [][last'.op = "health" =>
         /\ \A c \in DOMAIN containers :
               /\ containers'[c].state = containers[c].state
               /\ containers'[c].assigned_session_id =
                      containers[c].assigned_session_id
               /\ containers[c].state = "assigned" =>
                     containers'[c].state = "assigned"
         /\ Cardinality({c \in DOMAIN containers :
                 containers'[c].healthy # containers[c].healthy}) = 1
         /\ sessions' = sessions
      ]_vars

\* A container that an active session holds was just marked unhealthy
C36_Witness ==
    /\ last.op = "health"
    /\ \E c \in DOMAIN containers, s \in SessionIds :
          /\ ~containers[c].healthy
          /\ containers[c].state = "assigned"
          /\ containers[c].assigned_session_id = s
          /\ sessions[s].state = "active"
          /\ sessions[s].container_id = c

C38_Republish ==
    [][\A old \in entries :
         (/\ last'.op = "publish"
          /\ old.session_id = req.sid
          /\ old.session_cookie # generate_session_cookie(req.sid, issued))
         =>
         /\ {e \in entries' : e.session_id = req.sid}
               = {[session_cookie |-> generate_session_cookie(req.sid, issued),
                   session_id |-> req.sid,
                   upstream |-> address(req.container)]}
         /\ \A e \in entries' : e.session_cookie # old.session_cookie
         /\ last'.result = 1 =>
               /\ mapfile'.rows
                     = {<<e.session_cookie, e.upstream>> : e \in entries'}
               /\ RowsOf(mapfile', old.session_cookie) = {}
               /\ RowsOf(mapfile', generate_session_cookie(req.sid, issued))
                     = {<<generate_session_cookie(req.sid, issued),
                          address(req.container)>>}
      ]_vars

\* A session published at one container was published again, with success,
\* at another container: the file routes it to the new address only
C38_Witness ==
    /\ last.op = "publish"
    /\ last.result = 1
    /\ \E i \in 1..Len(decision_log) :
          /\ decision_log[i].session_id = last.sid
          /\ decision_log[i].to_container \in Containers
          /\ decision_log[i].to_container # req.container
          /\ \A r \in mapfile.rows :
                r[2] # address(decision_log[i].to_container)
    /\ \E r \in mapfile.rows : r[2] = address(req.container)

\* C39: the escalate handler compares the target tier with the session's
\* recorded current tier before calling AssignContainer: when the recorded
\* tier is >= the target the request ends there, with no assignment, score
\* update, routing publish, reload or log entry (the store, the table, the
\* file and the log are as before and nothing not already in the store is
\* committed), and the response names the session's recorded container id,
\* also when that session is Released and holds no container.
C39_EscalateSkip ==
    [][(/\ last'.op = "escalate"
        /\ last'.target \in {2, 3}
        /\ RecordedLevel(last'.sid) >= last'.target)
       =>
       /\ req.pc = "idle"
       /\ req' = NoRequest
       /\ UNCHANGED <<containers, sessions, entries, mapfile, tmpfile,
                      decision_log, sweep, now>>
       /\ committed' = Commit(containers, sessions)
       /\ last'.result = sessions[last'.sid].container_id
      ]_vars

\* An escalate request for a Released session at or above the requested
\* tier was answered: no container is assigned to the session
C39_Witness ==
    /\ last.op = "escalate"
    /\ last.target \in {2, 3}
    /\ req = NoRequest
    /\ sessions[last.sid].state = "released"
    /\ sessions[last.sid].current_level >= last.target
    /\ last.result = sessions[last.sid].container_id
    /\ \A c \in DOMAIN containers :
          containers[c].assigned_session_id # last.sid

\* C40: the idempotent no-op path of AssignContainer does not renew the
\* session's lifetime: it leaves expires_at (and the rest of the store) as
\* it was, so an Active session re-requested at a tier it already holds is
\* still selected by the first sweep that starts after its expires_at,
\* released by that sweep, and no Active session past its expires_at is
\* left when the sweep returns.
C40_NoRenewal ==
    [][/\ last'.op = "assign_existing" =>
             /\ \A s \in SessionIds :
                   sessions'[s].expires_at = sessions[s].expires_at
             /\ UNCHANGED <<containers, sessions>>
       /\ (sweep.pc = "idle" /\ sweep'.pc = "release") =>
             \A s \in SessionIds :
                 (/\ sessions[s].state = "active"
                  /\ sessions[s].expires_at # NoTime
                  /\ sessions[s].expires_at < now) => s \in sweep'.todo
       /\ \A s \in sweep.todo :
             s \notin sweep'.todo =>
                 /\ sessions'[s].state = "released"
                 /\ sessions'[s].container_id = None
       /\ (sweep.pc = "release" /\ sweep'.pc = "idle") =>
             /\ sweep.todo = {}
             /\ \A s \in SessionIds :
                   ~(/\ sessions'[s].state = "active"
                     /\ sessions'[s].expires_at # NoTime
                     /\ sessions'[s].expires_at < now)
      ]_vars

\* An Active session was re-requested, after its expires_at had passed, at
\* the tier it holds: it got its container back and is still expired
C40_Witness ==
    /\ last.op = "assign_existing"
    /\ sweep.pc = "idle"
    /\ sessions[last.sid].state = "active"
    /\ sessions[last.sid].container_id = last.result
    /\ last.result # None
    /\ sessions[last.sid].expires_at # NoTime
    /\ sessions[last.sid].expires_at < now
    /\ last.sid \in expired_sessions
====
